---- MODULE Spec2Model ----
(***************************************************************************)
(* Price-Monitor-Pro: the retrying fetcher, the per-platform extractors,   *)
(* the batch monitors (async and sync), the interactive check of app.py    *)
(* and the SQLite record store of database_manager.py.                     *)
(*                                                                         *)
(* Three specifications share the variables:                               *)
(*   SpecFetch  one call of AsyncPriceMonitor.fetch_with_retry             *)
(*   Spec       one batch check_prices (async or sync) over the store      *)
(*   SpecApp    the interactive session of app.py and the store calls of   *)
(*              other sessions, interleaved call by call                   *)
(***************************************************************************)
EXTENDS Integers, Sequences, FiniteSets, TLC

\* ------------------------------------------------------------------ bounds
\* largest max_retries a fetch_with_retry call is given
MaxRetries == 3
\* number of items in config['items']
NItems == 3
\* rows the products table may ever be given (its AUTOINCREMENT counter)
MaxId == 2
\* rows price_history may hold
MaxHist == 2

None == "None"

VARIABLES
    \* fetch_with_retry: its argument, loop index, position, raised error, and
    \* the attempts made so far, each [resp, wait] (wait 0: no sleep)
    f_max, f_attempt, f_pc, f_err, f_hist,
    \* the database: the products table (id -> row), its AUTOINCREMENT
    \* counter, the price_history table (row i has id i), the clock behind
    \* CURRENT_TIMESTAMP
    products, seq, price_history, now,
    \* a batch: which monitor runs it, where check_prices stands, and each
    \* item's check
    mode, b_pc, task,
    \* the interactive session of app.py: where it stands, and the url,
    \* platform, price and product id it holds
    s_pc, s_url, s_platform, s_price, s_pid,
    \* the AsyncPriceMonitor object of app.py: its scrapers registry, and how
    \* the last call of check_single_price or test_scraper on it ended
    scrapers, s_out,
    \* one call of a scraper's get_price: the parsed page it is given, the
    \* scraper (which monitor's, of which platform), and what it returned
    soup, x_scraper, x_price

fvars == <<f_max, f_attempt, f_pc, f_err, f_hist>>
dbvars == <<products, seq, price_history, now>>
bvars == <<mode, b_pc, task>>
svars == <<s_pc, s_url, s_platform, s_price, s_pid>>
mvars == <<scrapers, s_out>>
xvars == <<soup, x_scraper, x_price>>
vars == <<fvars, dbvars, bvars, svars, mvars, xvars>>

\* ------------------------------------------------------- fetch_with_retry
\* what one session.get can end in: an HTTP status, or an exception
\* (aiohttp.ClientError / asyncio.TimeoutError) before any status
Statuses == {200, 204, 403, 404, 503}
NetError == [exc |-> TRUE, status |-> 0]
Responses == {[exc |-> FALSE, status |-> s] : s \in Statuses} \cup {NetError}

\* random.uniform(1, 3), in whole seconds
Jitter == {1, 2, 3}

\* wait_time = (2 ** attempt) + random.uniform(1, 3)
WaitTimesLinear(attempt) == {attempt + j : j \in Jitter}
WaitTimes(attempt) == {(2 ^ attempt) + j : j \in Jitter}

\* the except clause: re-raise on the last attempt, else sleep and go on
OnClientErrorNeverRaise(attempt, max_retries) == "sleep"
OnClientError(attempt, max_retries) ==
    IF attempt = max_retries - 1 THEN "raise" ELSE "sleep"

\* the body of `async with session.get(...)`: what a status leads to.
\* raise_for_status raises ClientResponseError (a ClientError) for a status
\* >= 400, which the except clause of the same try then handles; for a
\* status below 400 it returns and the loop goes on at once.
OnStatusBelow400Returns(status, attempt, max_retries) ==
    IF status < 400 THEN "return"
    ELSE IF status = 503 THEN "sleep"
    ELSE OnClientError(attempt, max_retries)
OnStatus(status, attempt, max_retries) ==
    IF status = 200 THEN "return"
    ELSE IF status = 503 THEN "sleep"
    ELSE IF status >= 400 THEN OnClientError(attempt, max_retries)
    ELSE "continue"

OnResponse(resp, attempt, max_retries) ==
    IF resp.exc THEN OnClientError(attempt, max_retries)
    ELSE OnStatus(resp.status, attempt, max_retries)

\* the exception a response raises out of fetch_with_retry
ErrorOf(resp) == IF resp.exc THEN "ClientError" ELSE "ClientResponseError"

FetchInit ==
    /\ f_max \in 0..MaxRetries
    /\ f_attempt = 0
    /\ f_pc = "loop"
    /\ f_err = None
    /\ f_hist = <<>>

\* one iteration of `for attempt in range(max_retries)`
Attempt ==
    /\ f_pc = "loop"
    /\ f_attempt < f_max
    /\ \E resp \in Responses :
        LET todo == OnResponse(resp, f_attempt, f_max) IN
        \/ /\ todo = "return"
           /\ f_hist' = Append(f_hist, [resp |-> resp, wait |-> 0])
           /\ f_pc' = "returned"
           /\ UNCHANGED <<f_attempt, f_err>>
        \/ /\ todo = "sleep"
           /\ \E w \in WaitTimes(f_attempt) :
                f_hist' = Append(f_hist, [resp |-> resp, wait |-> w])
           /\ f_attempt' = f_attempt + 1
           /\ UNCHANGED <<f_pc, f_err>>
        \/ /\ todo = "continue"
           /\ f_hist' = Append(f_hist, [resp |-> resp, wait |-> 0])
           /\ f_attempt' = f_attempt + 1
           /\ UNCHANGED <<f_pc, f_err>>
        \/ /\ todo = "raise"
           /\ f_hist' = Append(f_hist, [resp |-> resp, wait |-> 0])
           /\ f_pc' = "raised"
           /\ f_err' = ErrorOf(resp)
           /\ UNCHANGED f_attempt
    /\ UNCHANGED <<f_max, dbvars, bvars, svars, mvars, xvars>>

\* the loop ran out: raise ValueError("Failed to fetch page after ... attempts")
Exhausted ==
    /\ f_pc = "loop"
    /\ f_attempt = f_max
    /\ f_pc' = "raised"
    /\ f_err' = "ValueError"
    /\ UNCHANGED <<f_max, f_attempt, f_hist, dbvars, bvars, svars, mvars, xvars>>


\* ------------------------------------------------------- Python values
\* prices as exact decimals num / 10^exp (no trailing zero in num when
\* exp > 0), beside float('inf'), None and a raised ValueError
RECURSIVE Normalize(_, _)
Normalize(num, exp) ==
    IF exp > 0 /\ num % 10 = 0 THEN Normalize(num \div 10, exp - 1)
    ELSE [kind |-> "float", num |-> num, exp |-> exp]
Float(num, exp) == Normalize(num, exp)
PyInf == [kind |-> "inf", num |-> 0, exp |-> 0]
PyNone == [kind |-> "None", num |-> 0, exp |-> 0]
ValueError == [kind |-> "ValueError", num |-> 0, exp |-> 0]

\* a < b on floats (inf included), as Python compares them
FloatLt(a, b) ==
    IF a.kind = "inf" THEN FALSE
    ELSE IF b.kind = "inf" THEN TRUE
    ELSE a.num * (10 ^ b.exp) < b.num * (10 ^ a.exp)

\* texts are sequences of characters
Digits == {"0", "1", "2", "3", "4", "5", "6", "7", "8", "9"}
DigitVal(c) ==
    CASE c = "0" -> 0 [] c = "1" -> 1 [] c = "2" -> 2 [] c = "3" -> 3
      [] c = "4" -> 4 [] c = "5" -> 5 [] c = "6" -> 6 [] c = "7" -> 7
      [] c = "8" -> 8 [] c = "9" -> 9

IsDigit(c) == c \in Digits
IsNumChar(c) == c \in Digits \cup {"."}
NotComma(c) == c # ","
CountChar(s, c) == Cardinality({i \in 1..Len(s) : s[i] = c})

RECURSIVE DigitsValue(_)
DigitsValue(s) ==
    IF s = <<>> THEN 0
    ELSE DigitsValue(SubSeq(s, 1, Len(s) - 1)) * 10 + DigitVal(s[Len(s)])

\* str.strip() of blanks
Strip(s) ==
    LET keep == {i \in 1..Len(s) : s[i] # " "} IN
    IF keep = {} THEN <<>>
    ELSE SubSeq(s, CHOOSE i \in keep : \A j \in keep : i <= j,
                   CHOOSE i \in keep : \A j \in keep : i >= j)

\* s[n:]
SliceFrom(s, n) == SubSeq(s, n + 1, Len(s))

\* digits with at most one point and at least one digit
IsDecimal(body) ==
    /\ \A i \in 1..Len(body) : IsNumChar(body[i])
    /\ CountChar(body, ".") <= 1
    /\ \E i \in 1..Len(body) : IsDigit(body[i])

\* the digits after the point
FractionDigits(body) ==
    IF CountChar(body, ".") = 0 THEN 0
    ELSE Len(body) - (CHOOSE i \in 1..Len(body) : body[i] = ".")

ParseDecimal(negative, body) ==
    IF IsDecimal(body)
    THEN Float(IF negative THEN 0 - DigitsValue(SelectSeq(body, IsDigit))
               ELSE DigitsValue(SelectSeq(body, IsDigit)),
               FractionDigits(body))
    ELSE ValueError

ParseSigned(t) ==
    IF t # <<>> /\ t[1] \in {"-", "+"} THEN ParseDecimal(t[1] = "-", Tail(t))
    ELSE ParseDecimal(FALSE, t)

\* float(s): blanks around, an optional sign, digits with at most one point
\* and at least one digit; anything else raises ValueError
PyFloat(s) == ParseSigned(Strip(s))

\* re.sub(r'[^\d.]', '', s)
ReSubNonNumeric(s) == SelectSeq(s, IsNumChar)

\* '.'.join(s.split('.')[-2:]) if s.count('.') > 1 else s
KeepLastPoint(s) ==
    IF CountChar(s, ".") > 1
    THEN LET dots == {i \in 1..Len(s) : s[i] = "."}
             cut == CHOOSE i \in dots : Cardinality({j \in dots : j > i}) = 1
         IN  SubSeq(s, cut + 1, Len(s))
    ELSE s

\* ------------------------------------------------------------ documents
\* A parsed page: what each selector the scrapers use finds (an element
\* with its text, or nothing), the title element, and the page's first text
\* node matching \$\d+(\.\d{2})? (for the eBay fallback).
NoElem == [found |-> FALSE, text |-> <<>>]
Elem(text) == [found |-> TRUE, text |-> text]

AmazonSelectors ==
    <<"a-price a-offscreen", "priceblock_ourprice", "priceblock_dealprice",
      "a-size-medium a-color-price">>
EbaySelectors == <<"x-price-primary", "prcIsum", "notranslate", "itemprop price">>
Selectors == {"a-price a-offscreen", "priceblock_ourprice", "priceblock_dealprice",
              "a-size-medium a-color-price", "x-price-primary", "prcIsum",
              "notranslate", "itemprop price"}

\* `a or b or c or d` over the selectors: a bs4 Tag is always truthy, so the
\* first selector that finds an element wins, whatever its text
FirstFound(doc, sels) ==
    LET hits == {i \in 1..Len(sels) : doc.elems[sels[i]].found} IN
    IF hits = {} THEN NoElem
    ELSE doc.elems[sels[CHOOSE i \in hits : \A j \in hits : i <= j]]

OrNone(v) == IF v.kind = "ValueError" THEN PyNone ELSE v
OrInf(v) == IF v.kind = "ValueError" THEN PyInf ELSE v

\* AsyncAmazonScraper.get_price
AsyncAmazonGetPrice(doc) ==
    LET price_element == FirstFound(doc, AmazonSelectors) IN
    IF price_element.found
    THEN OrNone(PyFloat(KeepLastPoint(ReSubNonNumeric(Strip(price_element.text)))))
    ELSE PyNone

\* AsyncEbayScraper.get_price
AsyncEbayGetPrice(doc) ==
    LET price_element == FirstFound(doc, EbaySelectors) IN
    IF price_element.found
    THEN OrNone(PyFloat(ReSubNonNumeric(Strip(price_element.text))))
    ELSE IF doc.dollar_text.found
         THEN OrNone(PyFloat(ReSubNonNumeric(doc.dollar_text.text)))
         ELSE PyNone

\* AmazonScraper.get_price (sync)
SyncAmazonGetPrice(doc) ==
    LET e == doc.elems["priceblock_ourprice"] IN
    IF e.found THEN OrInf(PyFloat(SelectSeq(SliceFrom(e.text, 2), NotComma)))
    ELSE PyInf

\* EbayScraper.get_price (sync)
SyncEbayGetPrice(doc) ==
    LET e == doc.elems["prcIsum"] IN
    IF e.found THEN OrInf(PyFloat(SelectSeq(SliceFrom(Strip(e.text), 4), NotComma)))
    ELSE PyInf

\* scraper.get_price(soup) of the scraper registered for the platform
GetPrice(monitor, platform, doc) ==
    IF monitor = "async"
    THEN IF platform = "amazon" THEN AsyncAmazonGetPrice(doc) ELSE AsyncEbayGetPrice(doc)
    ELSE IF platform = "amazon" THEN SyncAmazonGetPrice(doc) ELSE SyncEbayGetPrice(doc)

\* scraper.get_title(soup): the title element's text, or "Unknown Product"
GetTitle(doc) == IF doc.title = "" THEN "Unknown Product" ELSE doc.title

\* the pages the model serves
Page(title, sel, text, dollar) ==
    [title |-> title,
     elems |-> [s \in Selectors |-> IF s = sel THEN Elem(text) ELSE NoElem],
     dollar_text |-> dollar]

AmazonPages ==
    { Page("Kettle", "priceblock_ourprice", <<"$", "1", "2", ".", "5", "0">>, NoElem),
      Page("Kettle", "priceblock_ourprice", <<"$", "0", ".", "0", "0">>, NoElem),
      Page("", "", <<>>, NoElem) }
EbayPages ==
    { Page("Lamp", "prcIsum", <<"U", "S", " ", "$", "7", ".", "2", "5">>, NoElem),
      Page("Lamp", "prcIsum", <<"U", "S", " ", "$", "-", "3", ".", "0", "0">>, NoElem),
      Page("", "", <<>>, NoElem) }
PagesOf(platform) == IF platform = "amazon" THEN AmazonPages ELSE EbayPages

\* ---------------------------------------------- one call of get_price
\* the texts an element of a page may hold
ElemTexts ==
    { <<>>,
      <<"$", "1", "2", ".", "5", "0">>,
      <<"U", "S", " ", "$", "7", ".", "2", "5">>,
      <<"$", "1", ",", "2", "3", "4", ".", "5", "6">>,
      <<"1", ".", "2", "3", "4", ".", "5", "6">> }
ElemChoices == {NoElem} \cup {Elem(t) : t \in ElemTexts}

\* the selectors of a platform's scrapers, in the order the async scraper
\* tries them
SelectorsOf(platform) == IF platform = "amazon" THEN AmazonSelectors ELSE EbaySelectors

\* the pages that differ in what the platform's selectors find (and, for
\* eBay, in whether some text node holds a dollar amount)
Docs(platform) ==
    {[title |-> "",
      elems |-> [sel \in Selectors |->
                    IF \E k \in 1..4 : SelectorsOf(platform)[k] = sel
                    THEN f[CHOOSE k \in 1..4 : SelectorsOf(platform)[k] = sel]
                    ELSE NoElem],
      dollar_text |-> d] :
        f \in [1..4 -> ElemChoices],
        d \in IF platform = "ebay"
               THEN {NoElem, Elem(<<"$", "3", ".", "9", "9">>)} ELSE {NoElem}}

\* get_price has not returned yet
Pending == [kind |-> "pending", num |-> 0, exp |-> 0]

ExtractIdle ==
    /\ soup = Page("", "", <<>>, NoElem)
    /\ x_scraper = [monitor |-> "async", platform |-> "amazon"]
    /\ x_price = Pending

ExtractInit ==
    /\ x_scraper \in [monitor : {"async", "sync"}, platform : {"amazon", "ebay"}]
    /\ soup \in Docs(x_scraper.platform)
    /\ x_price = Pending

\* scraper.get_price(soup)
ExtractPrice ==
    /\ x_price = Pending
    /\ x_price' = GetPrice(x_scraper.monitor, x_scraper.platform, soup)
    /\ UNCHANGED <<soup, x_scraper, fvars, dbvars, bvars, svars, mvars>>

\* ------------------------------------------------------- DatabaseManager
\* None where a product id is expected (ids start at 1)
NoId == 0

\* URLs, by the parts the regex of is_valid_url tells apart: what stands
\* before "://", the host after it (a text), and the rest (here a number:
\* the path). NoUrl is None.
Url(scheme, host, path) == [scheme |-> scheme, host |-> host, path |-> path]
NoUrl == [scheme |-> None, host |-> <<>>, path |-> 0]

Letters == {"a", "b", "c", "d", "e", "f", "g", "h", "i", "j", "k", "l", "m",
            "n", "o", "p", "q", "r", "s", "t", "u", "v", "w", "x", "y", "z"}
IsAlnum(c) == c \in Letters \cup Digits

\* the pieces of s between the occurrences of c
RECURSIVE Split(_, _)
Split(s, c) ==
    IF \E i \in 1..Len(s) : s[i] = c
    THEN LET k == CHOOSE i \in 1..Len(s) : s[i] = c /\ \A j \in 1..(i - 1) : s[j] # c
         IN  <<SubSeq(s, 1, k - 1)>> \o Split(SubSeq(s, k + 1, Len(s)), c)
    ELSE <<s>>

\* [A-Z0-9](?:[A-Z0-9-]{0,61}[A-Z0-9])?   (re.IGNORECASE)
IsLabel(l) ==
    /\ Len(l) \in 1..63
    /\ IsAlnum(l[1]) /\ IsAlnum(l[Len(l)])
    /\ \A i \in 1..Len(l) : IsAlnum(l[i]) \/ l[i] = "-"
\* [A-Z]{2,6}
IsTld(l) == Len(l) \in 2..6 /\ \A i \in 1..Len(l) : l[i] \in Letters
\* \d{1,3}
IsOctet(l) == Len(l) \in 1..3 /\ \A i \in 1..Len(l) : IsDigit(l[i])

\* (?:label\.)+tld\.?
IsDomain(host) ==
    LET p == Split(host, ".")
        q == IF Len(p) > 1 /\ p[Len(p)] = <<>> THEN SubSeq(p, 1, Len(p) - 1) ELSE p
    IN  /\ Len(q) >= 2
        /\ IsTld(q[Len(q)])
        /\ \A i \in 1..(Len(q) - 1) : IsLabel(q[i])
IsLocalhost(host) == host = <<"l", "o", "c", "a", "l", "h", "o", "s", "t">>
\* \d{1,3}\.\d{1,3}\.\d{1,3}\.\d{1,3}
IsIp(host) ==
    LET p == Split(host, ".") IN Len(p) = 4 /\ \A i \in 1..4 : IsOctet(p[i])

\* regex.search(url): ^https?:// then a domain, localhost or an ip
RegexSearch(url) ==
    /\ url.scheme \in {"http", "https"}
    /\ IsDomain(url.host) \/ IsLocalhost(url.host) \/ IsIp(url.host)

\* url is not None and regex.search(url)
is_valid_url_NotNone(url) == url # NoUrl
is_valid_url(url) == url # NoUrl /\ RegexSearch(url)

\* SELECT id FROM products WHERE url = ?
get_product_id(url) ==
    IF \E id \in DOMAIN products : products[id].url = url
    THEN CHOOSE id \in DOMAIN products : products[id].url = url
    ELSE NoId

\* SELECT * FROM products WHERE id = ?  (TRUE: a row comes back)
get_product(product_id) == product_id \in DOMAIN products

\* INSERT OR REPLACE INTO products: the row holding the same url (UNIQUE)
\* is deleted and a new row is inserted under the next AUTOINCREMENT id
ReplaceIdMaxRowid(rows, seqno, url) ==
    IF DOMAIN rows = {} THEN 1
    ELSE (CHOOSE i \in DOMAIN rows : \A j \in DOMAIN rows : i >= j) + 1
ReplaceId(rows, seqno, url) == seqno + 1

InsertKeepingOld(rows, seqno, url, name, platform, desired_price) ==
    [i \in DOMAIN rows \cup {seqno + 1} |->
        IF i = seqno + 1
        THEN [url |-> url, name |-> name, platform |-> platform,
              desired_price |-> desired_price]
        ELSE rows[i]]
InsertOrReplace(rows, seqno, url, name, platform, desired_price) ==
    LET id == ReplaceId(rows, seqno, url)
        kept == {i \in DOMAIN rows : rows[i].url # url /\ i # id}
    IN  [i \in kept \cup {id} |->
            IF i = id
            THEN [url |-> url, name |-> name, platform |-> platform,
                  desired_price |-> desired_price]
            ELSE rows[i]]

\* INSERT INTO price_history (product_id, price): both columns are NOT NULL;
\* the FOREIGN KEY is declared but foreign keys are never switched on for
\* the connection, so product_id is not checked against products
HistoryInsertOk(rows, product_id, price) ==
    product_id # NoId /\ price.kind # "None"

HistoryRow(product_id, price, at) ==
    [product_id |-> product_id, price |-> price, checked_at |-> at]

\* rows of price_history WHERE product_id = ?
RowsOf(hist, product_id) == {i \in 1..Len(hist) : hist[i].product_id = product_id}

\* ORDER BY checked_at DESC: which row may come before which. Rows of the
\* same second are in no defined order.
MayPrecede(hist, i, j) == hist[i].checked_at >= hist[j].checked_at

\* get_price_history(product_id, limit): the results the query may give,
\* each a sequence of row ids
HistoryResults(hist, product_id, limit) ==
    LET rows == RowsOf(hist, product_id)
        n == IF Cardinality(rows) < limit THEN Cardinality(rows) ELSE limit
    IN  {r \in [1..n -> rows] :
            /\ \A a, b \in 1..n : a < b => (r[a] # r[b] /\ MayPrecede(hist, r[a], r[b]))
            /\ \A a \in 1..n : \A j \in rows :
                 (\A b \in 1..n : r[b] # j) => MayPrecede(hist, r[a], j)}
get_price_history(product_id, limit) == HistoryResults(price_history, product_id, limit)

\* DELETE FROM products WHERE id = ?: price_history is left as it is (no
\* ON DELETE CASCADE, no enforced foreign key)
DeleteRows(rows, product_id) == [i \in DOMAIN rows \ {product_id} |-> rows[i]]

StoreInit ==
    /\ products = <<>>
    /\ seq = 0
    /\ price_history = <<>>
    /\ now = 0

\* ------------------------------------------------ the batch check_prices
\* config['items']: item i of the configuration
ShopHost == <<"s", "h", "o", "p", ".", "c", "o", "m">>
ItemUrl(i) == Url("https", ShopHost, i)
Item(i) ==
    [url |-> ItemUrl(i),
     platform |-> IF i % 2 = 1 THEN "amazon" ELSE "ebay",
     desired_price |-> Float(10, 0)]
Items == 1..NItems

\* what the item's request ends in: an exception of the HTTP client, or a
\* response with its status and page (check_price and the sync check_prices
\* parse the page whatever the status)
GetStatuses == {200, 503}
GetFailed == [exc |-> TRUE, status |-> 0, doc |-> Page("", "", <<>>, NoElem)]
GetResults(platform) ==
    {GetFailed} \cup {[exc |-> FALSE, status |-> st, doc |-> d] :
                          st \in GetStatuses, d \in PagesOf(platform)}

\* what the SMTP server does when a mail is to be sent
SmtpOutcomes == {"ok", "connect_fails", "send_fails"}

\* the alert of an item whose price is below desired_price, and the
\* exception it leaves in the check. AsyncPriceMonitor defines no send_mail:
\* the call raises AttributeError. SyncPriceMonitor.send_mail logs what
\* fails, but its `finally: server.quit()` raises UnboundLocalError when
\* smtplib.SMTP(...) itself failed.
SendMail(monitor, smtp) ==
    IF monitor = "async" THEN [alert |-> "failed", exc |-> "AttributeError"]
    ELSE IF smtp = "ok" THEN [alert |-> "sent", exc |-> None]
    ELSE IF smtp = "connect_fails" THEN [alert |-> "failed", exc |-> "UnboundLocalError"]
    ELSE [alert |-> "failed", exc |-> None]

\* `except Exception as e` around an item's check
CatchesOnlyClientError(exc) == exc = "ClientError"
Catches(exc) ==
    exc \in {"ClientError", "ValueError", "IntegrityError", "AttributeError",
             "UnboundLocalError", "TypeError"}

NewTask ==
    [pc |-> "new", fetched |-> FALSE, status |-> 0, price |-> PyNone,
     product_id |-> NoId, row |-> 0, alert |-> "none", exc |-> None]

\* how an item's check ended, and the store it leaves
Ended(rows, seqno, hist, fetched, price, product_id, row, alert, exc) ==
    [products |-> rows, seq |-> seqno, price_history |-> hist,
     task |-> [pc |-> "done", fetched |-> fetched, status |-> 0, price |-> price,
               product_id |-> product_id, row |-> row, alert |-> alert, exc |-> exc]]

\* `if price < desired_price: send_mail(...)`, the last statement of the try
Alert(monitor, item, price, product_id, mail, rows, seqno, hist) ==
    Ended(rows, seqno, hist, TRUE, price, product_id, Len(hist), mail.alert, mail.exc)

\* add_price_history(product_id, price), committed on its own, then the alert
AppendObservation(monitor, item, price, product_id, smtp, rows, seqno, hist, at) ==
    IF ~HistoryInsertOk(rows, product_id, price)
    THEN Ended(rows, seqno, hist, TRUE, price, product_id, 0, "none", "IntegrityError")
    ELSE Alert(monitor, item, price, product_id,
               IF FloatLt(price, item.desired_price) THEN SendMail(monitor, smtp)
               ELSE [alert |-> "none", exc |-> None],
               rows, seqno, Append(hist, HistoryRow(product_id, price, at)))

\* add_or_update_product(url, title, platform, desired_price), committed on
\* its own, then the rest
Persist(monitor, item, title, price, smtp, rows, seqno, hist, at) ==
    IF ~is_valid_url(item.url)
    THEN Ended(rows, seqno, hist, TRUE, price, NoId, 0, "none", "ValueError")
    ELSE AppendObservation(monitor, item, price, ReplaceId(rows, seqno, item.url), smtp,
             InsertOrReplace(rows, seqno, item.url, title, item.platform,
                             item.desired_price),
             ReplaceId(rows, seqno, item.url), hist, at)

\* The body of the try of check_price / of the sync loop, from the answer of
\* the request on: extract the title and the price, then persist and alert.
\* Nothing between the extraction and the store calls looks at the price.
CheckBody(monitor, i, got, smtp, rows, seqno, hist, at) ==
    IF got.exc
    THEN Ended(rows, seqno, hist, FALSE, PyNone, NoId, 0, "none", "ClientError")
    ELSE Persist(monitor, Item(i), GetTitle(got.doc),
                 GetPrice(monitor, Item(i).platform, got.doc), smtp, rows, seqno, hist, at)

BatchInit ==
    /\ mode \in {"async", "sync"}
    /\ b_pc = "idle"
    /\ task = [i \in Items |-> NewTask]

\* check_prices is called: the async monitor creates one task per item and
\* gathers them, each running up to its request; the sync monitor enters
\* its loop.
StartBatch ==
    /\ b_pc = "idle"
    /\ b_pc' = "running"
    /\ task' = [i \in Items |-> [task[i] EXCEPT !.pc = IF mode = "async" THEN "get" ELSE "new"]]
    /\ UNCHANGED <<mode, dbvars, fvars, svars, mvars, xvars>>

\* the effect of item i's check on the store and on the batch
Commit(i, status, r) ==
    /\ products' = r.products
    /\ seq' = r.seq
    /\ price_history' = r.price_history
    /\ IF r.task.exc = None \/ Catches(r.task.exc)
       THEN /\ task' = [task EXCEPT ![i] = [r.task EXCEPT !.status = status]]
            /\ UNCHANGED b_pc
       ELSE \* the exception leaves check_prices: the checks not yet done never are
            /\ task' = [j \in Items |->
                           IF j = i THEN [r.task EXCEPT !.status = status]
                           ELSE IF task[j].pc = "done" THEN task[j]
                           ELSE [task[j] EXCEPT !.pc = "dead"]]
            /\ b_pc' = "raised"
    /\ UNCHANGED <<mode, now, fvars, svars, mvars, xvars>>

Checked(i, got, smtp) ==
    Commit(i, got.status,
           CheckBody(mode, i, got, smtp, products, seq, price_history, now))

\* AsyncPriceMonitor.check_price resumes with the answer to its request and
\* runs to its end (it awaits nothing that suspends after the response)
AsyncCheckPrice(i) ==
    /\ mode = "async"
    /\ b_pc = "running"
    /\ task[i].pc = "get"
    /\ \E got \in GetResults(Item(i).platform) : Checked(i, got, "ok")

\* one iteration of the loop of SyncPriceMonitor.check_prices
SyncCheckItem(i) ==
    /\ mode = "sync"
    /\ b_pc = "running"
    /\ task[i].pc = "new"
    /\ \A j \in Items : j < i => task[j].pc = "done"
    /\ \E got \in GetResults(Item(i).platform) : \E smtp \in SmtpOutcomes :
            Checked(i, got, smtp)

\* The caller's deadline or cancellation. check_prices takes no deadline and
\* hands out no handle on an item's task: what a caller can cancel is the
\* task awaiting check_prices (asyncio.wait_for(monitor.check_prices(), t)).
\* gather then cancels every child still waiting for its response;
\* CancelledError is no Exception, so check_price's except clause lets it
\* through, and it leaves check_prices.
CancelBatch ==
    /\ mode = "async"
    /\ b_pc = "running"
    /\ \E i \in Items : task[i].pc = "get"
    /\ task' = [i \in Items |->
                   IF task[i].pc = "get" THEN [task[i] EXCEPT !.pc = "cancelled"]
                   ELSE task[i]]
    /\ b_pc' = "cancelled"
    /\ UNCHANGED <<mode, dbvars, fvars, svars, mvars, xvars>>

\* gather returns / the loop ends
FinishBatch ==
    /\ b_pc = "running"
    /\ \A i \in Items : task[i].pc = "done"
    /\ b_pc' = "done"
    /\ UNCHANGED <<mode, task, dbvars, fvars, svars, mvars, xvars>>

\* ------------------------------------------------ the monitor object
\* AsyncScraperFactory.get_scraper: TRUE when it returns a scraper, FALSE
\* when it raises ValueError("Unsupported platform")
get_scraper(platform) == platform \in {"amazon", "ebay"}

\* self.scrapers after __init__ over a configuration of the first n items:
\* one scraper per platform among them (items are of platforms the factory
\* knows, or __init__ raises)
Registry(n) == {platform \in {Item(i).platform : i \in 1..n} : get_scraper(platform)}

\* the platform a caller may hand to check_single_price / test_scraper
CallPlatforms == {"amazon", "ebay", "walmart"}

\* f"{price:.2f}": dollars and cents. A text of at most two decimals is
\* exact; beyond that the nearest cent (a tie goes by the binary float).
FormatPrice(price) ==
    LET cents == IF price.exp <= 2 THEN price.num * (10 ^ (2 - price.exp))
                 ELSE (2 * price.num + (10 ^ (price.exp - 2))) \div (2 * (10 ^ (price.exp - 2)))
    IN  [na |-> FALSE, dollars |-> cents \div 100, cents |-> cents % 100]
NotAvailable == [na |-> TRUE, dollars |-> 0, cents |-> 0]

\* how a call on the monitor ended: whether it issued its fetch, whether it
\* raised, the exception behind its error (None: none), and what it
\* returned (text: the form of test_scraper's string)
Outcome(op, platform, fetched, raised, err, text, title, price, price_str) ==
    [op |-> op, platform |-> platform, fetched |-> fetched, raised |-> raised,
     err |-> err, text |-> text, title |-> title, price |-> price,
     price_str |-> price_str]
NoOutcome == Outcome("none", "", FALSE, FALSE, None, "none", "", PyNone, NotAvailable)

MonitorInit ==
    /\ scrapers = Registry(NItems)
    /\ s_out = NoOutcome

SessionIdle ==
    /\ s_pc = "idle"
    /\ s_url = ItemUrl(1)
    /\ s_platform = "amazon"
    /\ s_price = PyNone
    /\ s_pid = NoId

FetchIdle ==
    /\ f_max = 0
    /\ f_attempt = 0
    /\ f_pc = "idle"
    /\ f_err = None
    /\ f_hist = <<>>

Init == FetchIdle /\ StoreInit /\ BatchInit /\ SessionIdle /\ MonitorInit /\ ExtractIdle

Next ==
    \/ StartBatch
    \/ \E i \in Items : AsyncCheckPrice(i)
    \/ \E i \in Items : SyncCheckItem(i)
    \/ CancelBatch
    \/ FinishBatch

Spec == Init /\ [][Next]_vars

\* ------------------------------------------- one call of fetch_with_retry
BatchIdle ==
    /\ mode = "async"
    /\ b_pc = "idle"
    /\ task = [i \in Items |-> NewTask]

InitFetch == FetchInit /\ StoreInit /\ BatchIdle /\ SessionIdle /\ MonitorInit /\ ExtractIdle

NextFetch == Attempt \/ Exhausted

SpecFetch == InitFetch /\ [][NextFetch]_vars

\* the event loop runs the coroutine on: a request ends within its
\* timeout=30 and a sleep within its wait_time, so the loop takes its next
\* step whenever it has one
SpecFetchLive ==
    InitFetch /\ [][NextFetch]_vars /\ WF_vars(Attempt) /\ WF_vars(Exhausted)

\* ------------------------------------------------ the interactive session
\* what fetch_with_retry hands to check_single_price: an exception, or the
\* page of the attempt answered 200
FetchResults(platform) == {got \in GetResults(platform) : got.exc \/ got.status = 200}

\* `if price is None: raise ...; if price == float('inf') or price <= 0: raise ...`
ValidPrice(price) == price.kind = "float" /\ price.num > 0

\* check_single_price raised: every exception of its body is turned into
\* ValueError("Unable to retrieve a valid price: ...")
SingleRaised(platform, err) ==
    Outcome("check_single_price", platform, TRUE, TRUE, err, "none", "", PyNone,
            NotAvailable)

\* the end of check_single_price: the two checks of the extracted price
SingleNotValidated(platform, price) ==
    Outcome("check_single_price", platform, TRUE, FALSE, None, "none", "", price,
            NotAvailable)
SingleValidated(platform, price) ==
    IF price.kind = "None" THEN SingleRaised(platform, "ValueError")
    ELSE IF ~ValidPrice(price) THEN SingleRaised(platform, "ValueError")
    ELSE Outcome("check_single_price", platform, TRUE, FALSE, None, "none", "",
                 price, NotAvailable)

\* check_single_price(url, platform), statement by statement: the fetch,
\* then self.scrapers[platform], then get_price and the validation
SinglePriceOutcome(registry, platform, got) ==
    IF got.exc THEN SingleRaised(platform, "FetchError")
    ELSE IF platform \notin registry THEN SingleRaised(platform, "KeyError")
    ELSE SingleValidated(platform, GetPrice("async", platform, got.doc))

\* check_single_price(url, platform): the price, or the ValueError every
\* failure is turned into
check_single_price(registry, platform, got) ==
    IF SinglePriceOutcome(registry, platform, got).raised THEN ValueError
    ELSE SinglePriceOutcome(registry, platform, got).price

\* test_scraper returned "Error testing scraper: ..."
TestError(platform, err) ==
    Outcome("test_scraper", platform, TRUE, FALSE, err, "error", "", PyNone,
            NotAvailable)
TestRaised(platform, err) ==
    Outcome("test_scraper", platform, TRUE, TRUE, err, "none", "", PyNone,
            NotAvailable)

\* price_str = f"${price:.2f}" if price is not None else "N/A";
\* return f"Title: {title}\nPrice: {price_str}"
TestReport(platform, title, price) ==
    IF price.kind = "None"
    THEN Outcome("test_scraper", platform, TRUE, FALSE, None, "N/A", title, price,
                 NotAvailable)
    ELSE Outcome("test_scraper", platform, TRUE, FALSE, None, "price", title, price,
                 FormatPrice(price))

\* test_scraper(url, platform), statement by statement
test_scraper_NoExcept(registry, platform, got) ==
    IF got.exc THEN TestRaised(platform, "FetchError")
    ELSE IF platform \notin registry THEN TestRaised(platform, "KeyError")
    ELSE TestReport(platform, GetTitle(got.doc), GetPrice("async", platform, got.doc))
test_scraper(registry, platform, got) ==
    IF got.exc THEN TestError(platform, "FetchError")
    ELSE IF platform \notin registry THEN TestError(platform, "KeyError")
    ELSE TestReport(platform, GetTitle(got.doc), GetPrice("async", platform, got.doc))

\* what the forms of app.py may be given
FormUrls == {ItemUrl(1), ItemUrl(2), Url("", ShopHost, 1)}
\* what any caller may hand to add_or_update_product
CallUrls == FormUrls \cup {NoUrl, Url("ftp", ShopHost, 1), Url("https", <<>>, 1)}
FormNames == {"Pot"}
FormPrices == {Float(5, 0)}
PlatformOf(url) == Item(url.path).platform

\* a store call: add_or_update_product(url, name, platform, desired_price)
AddOrUpdateProduct(url, name, platform, desired_price) ==
    IF is_valid_url(url)
    THEN /\ seq < MaxId
         /\ products' = InsertOrReplace(products, seq, url, name, platform, desired_price)
         /\ seq' = ReplaceId(products, seq, url)
    ELSE UNCHANGED <<products, seq>>

\* a store call: add_price_history(product_id, price)
AddPriceHistory(product_id, price) ==
    IF HistoryInsertOk(products, product_id, price)
    THEN /\ Len(price_history) < MaxHist
         /\ price_history' = Append(price_history, HistoryRow(product_id, price, now))
    ELSE UNCHANGED price_history

\* show_add_product, submitted: add_or_update_product, then (when it did not
\* raise) the initial check of the price
SubmitAddProduct ==
    /\ s_pc = "idle"
    /\ \E url \in FormUrls :
        /\ AddOrUpdateProduct(url, "Kettle", PlatformOf(url), Float(10, 0))
        /\ s_url' = url
        /\ s_platform' = PlatformOf(url)
        /\ s_pc' = IF is_valid_url(url) THEN "check" ELSE "idle"
    /\ UNCHANGED <<price_history, now, s_price, s_pid, bvars, fvars, mvars, xvars>>

\* show_products: "Check Price Now" on a listed product calls check_price_sync
ClickCheckPrice ==
    /\ s_pc = "idle"
    /\ \E id \in DOMAIN products :
        /\ s_url' = products[id].url
        /\ s_platform' = products[id].platform
    /\ s_pc' = "check"
    /\ UNCHANGED <<dbvars, s_price, s_pid, bvars, fvars, mvars, xvars>>

\* price = asyncio.run(price_monitor.check_single_price(url, platform)):
\* on an exception price is not assigned, the session reports the error and
\* is done
RunCheckSinglePrice ==
    /\ s_pc = "check"
    /\ \E got \in FetchResults(s_platform) :
        /\ s_price' = IF check_single_price(scrapers, s_platform, got).kind = "ValueError"
                      THEN s_price ELSE check_single_price(scrapers, s_platform, got)
        /\ s_pc' = IF check_single_price(scrapers, s_platform, got).kind = "ValueError"
                   THEN "idle" ELSE "lookup"
    /\ UNCHANGED <<dbvars, s_url, s_platform, s_pid, bvars, fvars, mvars, xvars>>

\* the argument of add_price_history: db_manager.get_product_id(url)
LookupProductId ==
    /\ s_pc = "lookup"
    /\ s_pid' = get_product_id(s_url)
    /\ s_pc' = "append"
    /\ UNCHANGED <<products, seq, price_history, now, s_url, s_platform, s_price,
                   bvars, fvars, mvars, xvars>>

\* db_manager.add_price_history(<that id>, price); the check returns and
\* its price and id are gone with it
AppendCheckedPrice ==
    /\ s_pc = "append"
    /\ AddPriceHistory(s_pid, s_price)
    /\ s_pc' = "idle"
    /\ s_price' = PyNone
    /\ s_pid' = NoId
    /\ UNCHANGED <<products, seq, now, s_url, s_platform, bvars, fvars, mvars, xvars>>

\* another session (or the batch monitor) upserts a product
OtherUpsert ==
    /\ \E url \in CallUrls :
        AddOrUpdateProduct(url, "Kettle", PlatformOf(url), Float(10, 0))
    /\ UNCHANGED <<price_history, now, svars, bvars, fvars, mvars, xvars>>

\* show_products: "Delete" on a listed product calls delete_product(id)
DeleteProduct ==
    /\ \E id \in 1..seq :
        products' = DeleteRows(products, id)
    /\ UNCHANGED <<seq, price_history, now, svars, bvars, fvars, mvars, xvars>>

\* edit_product: update_product(id, new_name, new_desired_price)
UpdateProduct ==
    /\ \E id \in DOMAIN products : \E name \in FormNames : \E desired_price \in FormPrices :
        products' = [products EXCEPT ![id].name = name,
                                     ![id].desired_price = desired_price]
    /\ UNCHANGED <<seq, price_history, now, svars, bvars, fvars, mvars, xvars>>

\* the clock reaches the next second in which the store is written (seconds
\* in which no row is stamped are not told apart)
Tick ==
    /\ \E i \in 1..Len(price_history) : price_history[i].checked_at = now
    /\ now' = now + 1
    /\ UNCHANGED <<products, seq, price_history, svars, bvars, fvars, mvars, xvars>>

InitApp == FetchIdle /\ StoreInit /\ BatchIdle /\ SessionIdle /\ MonitorInit /\ ExtractIdle

NextApp ==
    \/ SubmitAddProduct
    \/ ClickCheckPrice
    \/ RunCheckSinglePrice
    \/ LookupProductId
    \/ AppendCheckedPrice
    \/ OtherUpsert
    \/ DeleteProduct
    \/ UpdateProduct
    \/ Tick

SpecApp == InitApp /\ [][NextApp]_vars

\* ------------------------------------- single calls on the monitor object
\* The monitor of app.py, built over a configuration of 1..NItems items, is
\* called by any caller; other callers write the store meanwhile.
\* what the request of a call for the platform ends in (a platform no
\* scraper knows is served the pages of a shop all the same)
CallResults(platform) ==
    IF platform = "ebay" THEN FetchResults("ebay") ELSE FetchResults("amazon")

\* a call of test_scraper(url, platform)
TestScraper ==
    /\ \E url \in FormUrls : \E platform \in CallPlatforms :
        \E got \in CallResults(platform) :
            /\ s_url' = url
            /\ s_platform' = platform
            /\ s_out' = test_scraper(scrapers, platform, got)
    /\ UNCHANGED <<s_pc, s_price, s_pid, scrapers, dbvars, bvars, fvars, xvars>>

\* a call of check_single_price(url, platform)
CheckSinglePrice ==
    /\ \E url \in FormUrls : \E platform \in CallPlatforms :
        \E got \in CallResults(platform) :
            /\ s_url' = url
            /\ s_platform' = platform
            /\ s_out' = SinglePriceOutcome(scrapers, platform, got)
    /\ UNCHANGED <<s_pc, s_price, s_pid, scrapers, dbvars, bvars, fvars, xvars>>

InitSingle ==
    /\ FetchIdle /\ StoreInit /\ BatchIdle /\ SessionIdle /\ ExtractIdle
    /\ scrapers \in {Registry(n) : n \in 1..NItems}
    /\ s_out = NoOutcome

NextSingle ==
    \/ TestScraper
    \/ CheckSinglePrice
    \/ OtherUpsert
    \/ DeleteProduct
    \/ UpdateProduct

SpecSingle == InitSingle /\ [][NextSingle]_vars

\* ------------------------------------------------- get_price on any page
InitExtract ==
    FetchIdle /\ StoreInit /\ BatchIdle /\ SessionIdle /\ MonitorInit /\ ExtractInit

NextExtract == ExtractPrice

SpecExtract == InitExtract /\ [][NextExtract]_vars

\* --------------------------------------------------- claims on the batch
Present(i) ==
    /\ task[i].row \in 1..Len(price_history)
    /\ price_history[task[i].row].price = task[i].price
    /\ price_history[task[i].row].product_id = task[i].product_id

\* C1: no item's failure ends the batch or another item's check:
\* check_prices never raises, no check is left undone, and when the batch
\* is done every item whose request was answered and whose price was
\* extracted has its observation in price_history.
C1_FailuresStayLocal ==
    /\ b_pc # "raised"
    /\ \A i \in Items : task[i].pc # "dead"
    /\ b_pc = "done" =>
         \A i \in Items :
            (task[i].fetched /\ task[i].price.kind = "float") => Present(i)

\* item 2's extraction failed; items 1 and 3 have their observations
C1_Witness ==
    /\ b_pc = "done"
    /\ task[2].fetched /\ task[2].price.kind # "float" /\ task[2].exc # None
    /\ Present(1) /\ task[1].price.kind = "float"
    /\ Present(3) /\ task[3].price.kind = "float"

\* C2 (as claimed): price_history never holds a price that is absent, 0,
\* negative or infinite.
C2_NoInvalidPriceStored ==
    \A k \in 1..Len(price_history) : ValidPrice(price_history[k].price)

\* C6 (as claimed): an item's check writes the store (the product upsert,
\* the observation) only once its price is known to be present, finite and
\* above 0.
C6_ValidatedBeforeAnyWrite ==
    \A i \in Items :
        (task[i].product_id # NoId \/ task[i].row # 0) => ValidPrice(task[i].price)

\* send_mail ran for item i (whatever came of the mail)
NotifierInvoked(i) == task[i].alert # "none" /\ task[i].exc # "AttributeError"

\* C13 (as claimed): an item's check that persisted its observation invokes
\* the notifier exactly when the persisted price is below desired_price,
\* and an invoked notifier finds the observation in price_history.
C13_AlertIffBelow ==
    \A i \in Items :
        /\ (task[i].pc = "done" /\ task[i].row # 0) =>
              (NotifierInvoked(i) <=> FloatLt(task[i].price, Item(i).desired_price))
        /\ NotifierInvoked(i) => Present(i)

\* C14 (as claimed): an alert that fails leaves the observation in
\* price_history and the item's check without an error, and the batch goes
\* on to its end.
C14_AlertFailureNonFatal ==
    \A i \in Items :
        task[i].alert = "failed" =>
            /\ Present(i)
            /\ task[i].exc = None
            /\ b_pc # "raised"

\* C17 (as claimed): a batch item's check ends as check_single_price would
\* for the same responses: it persists an observation only from a page
\* answered 200 (a 503 is retried, never parsed) whose price passes the
\* validation of check_single_price.
C17_BatchAsSingleCheck ==
    \A i \in Items :
        (mode = "async" /\ Present(i)) =>
            /\ task[i].status = 200
            /\ ValidPrice(task[i].price)

\* C18 (as claimed): a cancellation reaches one item only: that item ends
\* cancelled, no sibling does, and the batch is not ended by it.
C18_CancelIsLocal ==
    (\E i \in Items : task[i].pc = "cancelled") =>
        /\ Cardinality({i \in Items : task[i].pc = "cancelled"}) = 1
        /\ b_pc # "cancelled"

\* ------------------------------------------------- claims on the store
\* row k is in every result of get_price_history(product_id) with a limit
\* that cuts nothing off
InHistory(hist, product_id, k) ==
    \A r \in HistoryResults(hist, product_id, Len(hist)) : \E a \in DOMAIN r : r[a] = k

\* C7 (as claimed): while a url keeps a product (no delete_product of it),
\* the observations in the history of the url's product stay in the history
\* of the url's product.
C7_HistoryStaysWithItem ==
    [][\A url \in FormUrls :
          (get_product_id(url) # NoId /\ get_product_id(url)' # NoId) =>
             \A k \in RowsOf(price_history, get_product_id(url)) :
                InHistory(price_history', get_product_id(url)', k)]_vars

\* C8 (as claimed): a row is added to price_history only under the id of a
\* product that is in products at that moment.
C8_AppendReferencesProduct ==
    [][Len(price_history') > Len(price_history) =>
          price_history'[Len(price_history')].product_id \in DOMAIN products]_vars

\* C9 (as claimed): right after add_price_history(product_id, p) for an
\* existing product, get_price_history(product_id, 1) gives exactly one
\* entry, and its price is p.
C9_RoundTrip ==
    [][(/\ Len(price_history') > Len(price_history)
        /\ price_history'[Len(price_history')].product_id \in DOMAIN products') =>
          \A r \in HistoryResults(price_history',
                                  price_history'[Len(price_history')].product_id, 1) :
             /\ Len(r) = 1
             /\ price_history'[r[1]].price = price_history'[Len(price_history')].price]_vars

\* C10 (as claimed): after delete_product(id) removed the product, the
\* product is gone and get_price_history(id) is empty.
C10_DeleteCascades ==
    [][\A id \in DOMAIN products :
          (products' = DeleteRows(products, id) /\ seq' = seq) =>
             /\ ~get_product(id)'
             /\ HistoryResults(price_history', id, MaxHist) = {<<>>}]_vars

\* a url that is absent, has no http/https scheme, or has no host
Lacks(url) == url = NoUrl \/ url.scheme \notin {"http", "https"} \/ url.host = <<>>

\* C11: add_or_update_product with a url that is absent, lacks an http/https
\* scheme or lacks a host writes nothing to products (the session that
\* submitted it gets the error and goes no further), and every row of
\* products holds a url that has a scheme and a host.
C11_InvalidUrlRejected ==
    [][/\ products' # products =>
            /\ \A id \in DOMAIN products' : ~Lacks(products'[id].url)
            /\ \A url \in CallUrls :
                 Lacks(url) =>
                    ~AddOrUpdateProduct(url, "Kettle", PlatformOf(url), Float(10, 0))
       /\ (s_pc = "idle" /\ Lacks(s_url') /\ SubmitAddProduct) =>
            (s_pc' = "idle" /\ UNCHANGED <<products, seq>>)]_vars

\* the session submitted a url without a scheme; the products written
\* before are as they were
C11_Witness ==
    /\ s_pc = "idle"
    /\ s_url = Url("", ShopHost, 1)
    /\ DOMAIN products = {1}
    /\ ~Lacks(products[1].url)

\* C12: no two rows of products hold the same url; add_or_update_product of
\* a url makes get_product_id(url) the id it returns, and until the next one
\* get_product_id(url) stays that id, or becomes None by a delete_product of
\* that id.
C12_UrlIsIdentity ==
    [][products' # products =>
         \A url \in CallUrls :
            /\ \A a, b \in DOMAIN products' :
                   products'[a].url = products'[b].url => a = b
            /\ IF /\ is_valid_url(url)
                  /\ AddOrUpdateProduct(url, "Kettle", PlatformOf(url), Float(10, 0))
               THEN get_product_id(url)' = ReplaceId(products, seq, url)
               ELSE \/ get_product_id(url)' = get_product_id(url)
                    \/ /\ get_product_id(url)' = NoId
                       /\ products' = DeleteRows(products, get_product_id(url))]_vars

\* the session looked up id 1 for its url; the url was upserted again since
\* and is now product 2, the only row with that url
C12_Witness ==
    /\ s_pc = "append"
    /\ s_pid = 1
    /\ get_product_id(s_url) = 2
    /\ Cardinality({id \in DOMAIN products : products[id].url = s_url}) = 1

\* C25: the price check_single_price hands to the session is a number above
\* 0 (never None, never inf): the session goes on to add_price_history only
\* with such a price, and every price the interactive paths store is one.
C25_SinglePriceValidated ==
    /\ s_pc \in {"lookup", "append"} => (s_price.kind = "float" /\ s_price.num > 0)
    /\ \A k \in 1..Len(price_history) :
          price_history[k].price.kind = "float" /\ price_history[k].price.num > 0

\* a checked price is about to be stored, after another one was
C25_Witness ==
    /\ s_pc = "append"
    /\ s_price = Float(725, 2)
    /\ Len(price_history) = 1
    /\ price_history[1].price = Float(125, 1)

\* C26: every id in products, and every product_id in price_history, is one
\* the AUTOINCREMENT counter has handed out; a row that appears in products
\* has an id above all of those, a row that stays keeps its url, and an
\* upsert leaves price_history as it is. So an id once gone never names a
\* product again, and its observations never pass to another product.
C26_IdsNeverReused ==
    /\ [](/\ DOMAIN products \subseteq 1..seq
          /\ \A k \in 1..Len(price_history) : price_history[k].product_id \in 1..seq)
    /\ [][products' # products =>
            /\ \A id \in DOMAIN products' \ DOMAIN products : id > seq
            /\ \A id \in DOMAIN products' \cap DOMAIN products :
                  products'[id].url = products[id].url
            /\ seq' # seq => price_history' = price_history]_vars

\* product 1 was observed and is gone; product 2 is stored and has no
\* observation of its own or of product 1
C26_Witness ==
    /\ Len(price_history) >= 1
    /\ price_history[1].product_id = 1
    /\ DOMAIN products = {2}
    /\ RowsOf(price_history, 2) = {}

\* ------------------------------------ claims on single calls on the monitor
\* C15: a call of test_scraper leaves products and price_history as they
\* are and never raises; it returns the error text when the fetch (or the
\* lookup of the scraper) failed, and else the title with "N/A" when no
\* price was extracted, or with the price formatted to two decimals.
C15_TestModeHasNoEffect ==
    [][(s_out' # s_out /\ s_out'.op = "test_scraper") =>
         /\ UNCHANGED <<products, seq, price_history>>
         /\ ~s_out'.raised
         /\ s_out'.text \in {"error", "N/A", "price"}
         /\ s_out'.text = "error" <=> s_out'.err # None
         /\ s_out'.text = "N/A" <=> (s_out'.err = None /\ s_out'.price.kind = "None")
         /\ s_out'.text = "price" =>
               /\ s_out'.price.kind = "float"
               /\ ~s_out'.price_str.na
               /\ FloatLt(s_out'.price,
                          Float(100 * s_out'.price_str.dollars + s_out'.price_str.cents + 1, 2))
               /\ FloatLt(Float(100 * s_out'.price_str.dollars + s_out'.price_str.cents - 1, 2),
                          s_out'.price)]_vars

\* test_scraper found no price on the page and said so, beside a store that
\* holds a product
C15_Witness ==
    /\ s_out.op = "test_scraper"
    /\ s_out.text = "N/A"
    /\ s_out.title = "Unknown Product"
    /\ products # <<>>

\* C16 (as claimed): a call for a platform without a registered scraper
\* (of check_single_price or test_scraper) ends in the unsupported-platform
\* error and issues no fetch.
C16_UnsupportedFailsFast ==
    (s_out.op # "none" /\ s_out.platform \notin scrapers) =>
        /\ ~s_out.fetched
        /\ s_out.err = "UnsupportedPlatform"

\* ------------------------------------------------ claims on get_price
HasDigits(text) == \E i \in 1..Len(text) : IsDigit(text[i])

\* C19 (as claimed): when some selector of the async scraper finds an
\* element whose text holds a price, get_price does not return None,
\* whatever the selectors tried before it found.
C19_FallbackOnEmptyText ==
    (/\ x_price # Pending
     /\ x_scraper.monitor = "async"
     /\ \E k \in 1..4 :
           /\ soup.elems[SelectorsOf(x_scraper.platform)[k]].found
           /\ HasDigits(soup.elems[SelectorsOf(x_scraper.platform)[k]].text))
        => x_price.kind # "None"

\* C20 (as claimed): get_price of every scraper returns a number it parsed
\* from the page, or None: never an error and never a placeholder number.
C20_AbsentIsNone ==
    x_price # Pending =>
        \/ x_price.kind = "None"
        \/ /\ x_price.kind = "float"
           /\ \/ \E sel \in Selectors : soup.elems[sel].found /\ HasDigits(soup.elems[sel].text)
              \/ soup.dollar_text.found

\* the element whose text the scraper parses: the first one found by the
\* async scraper's selectors, the one element the sync scraper looks for
Matched ==
    IF x_scraper.monitor = "async"
    THEN FirstFound(soup, SelectorsOf(x_scraper.platform))
    ELSE soup.elems[IF x_scraper.platform = "amazon" THEN "priceblock_ourprice"
                    ELSE "prcIsum"]

\* the number written in a text: all its digits, the point where the text's
\* last point stands among them, digits before an earlier point dropped
LastPointNumber(text) == ParseDecimal(FALSE, KeepLastPoint(SelectSeq(text, IsNumChar)))

\* C21 (as claimed): when the text matched by an async scraper still holds
\* more than one point after everything but digits and points is stripped,
\* get_price gives the number from the second-to-last point on
\* ("1.234.56" gives 234.56), not None.
C21_LastSeparatorRule ==
    (/\ x_price # Pending
     /\ x_scraper.monitor = "async"
     /\ Matched.found
     /\ CountChar(Matched.text, ".") > 1
     /\ HasDigits(Matched.text))
        => x_price = LastPointNumber(Matched.text)

\* C22 (as claimed): when the matched text holds exactly one point, beside
\* digits, currency signs and commas, get_price of every scraper gives the
\* number made of all the text's digits with the point in its place
\* ("$1,234.56" gives 1234.56).
C22_OneSeparatorExact ==
    (/\ x_price # Pending
     /\ Matched.found
     /\ CountChar(Matched.text, ".") = 1
     /\ HasDigits(Matched.text))
        => x_price = ParseDecimal(FALSE, SelectSeq(Matched.text, IsNumChar))

\* ------------------------------------------------- claims on the fetcher
FetchDone == f_pc \in {"returned", "raised"}
LastResp == f_hist[Len(f_hist)].resp
All503 == \A i \in 1..Len(f_hist) : f_hist[i].resp = [exc |-> FALSE, status |-> 503]
AllRetryable ==
    \A i \in 1..Len(f_hist) : f_hist[i].resp.exc \/ f_hist[i].resp.status = 503
ErrorStatus(resp) == ~resp.exc /\ resp.status >= 400 /\ resp.status # 503

\* C3 (as claimed): an attempt answered by an error status other than 503
\* (403, 404) is the last one: the fetch raises the HTTP-status error there,
\* without a sleep and without another request.
C3_OtherStatusFailsAtOnce ==
    \A i \in 1..Len(f_hist) :
        ErrorStatus(f_hist[i].resp) =>
            /\ i = Len(f_hist)
            /\ f_hist[i].wait = 0
            /\ f_pc = "raised"
            /\ f_err = "ClientResponseError"

\* C4: when every attempt is answered 503, the wait after attempt k is at
\* least 2^k seconds, the fetch never returns, and it ends only after
\* max_retries requests, raising ValueError (retries exhausted).
C4_Sustained503 ==
    All503 =>
        /\ \A i \in 1..Len(f_hist) : f_hist[i].wait >= 2 ^ (i - 1)
        /\ f_pc # "returned"
        /\ FetchDone => /\ Len(f_hist) = f_max
                        /\ f_pc = "raised"
                        /\ f_err = "ValueError"

C4_Witness ==
    /\ All503
    /\ f_pc = "raised"
    /\ f_max >= 3
    /\ Len(f_hist) = f_max

\* C5 (as claimed): giving up after max_retries attempts that all failed
\* with a 503 or a network error raises the retries-exhausted ValueError,
\* and that error is raised only after max_retries attempts.
C5_ExhaustedIsDistinct ==
    /\ (f_pc = "raised" /\ AllRetryable /\ Len(f_hist) = f_max)
            => f_err = "ValueError"
    /\ f_err = "ValueError" => Len(f_hist) = f_max

\* C5 (amended): after max_retries attempts that all failed with a 503 or a
\* network error, the fetch raises the retries-exhausted ValueError when the
\* last attempt was answered 503, and the last attempt's own network error
\* when that attempt failed with one; never the HTTP-status error, and the
\* ValueError only after max_retries attempts.
C5_ExhaustedUnlessLastNetError ==
    /\ (f_pc = "raised" /\ AllRetryable) =>
            /\ Len(f_hist) = f_max
            /\ f_err = IF f_max > 0 /\ LastResp.exc THEN "ClientError"
                       ELSE "ValueError"
    /\ f_err = "ValueError" => Len(f_hist) = f_max

C5_Witness ==
    /\ f_pc = "raised"
    /\ AllRetryable
    /\ Len(f_hist) = f_max
    /\ f_max >= 2
    /\ LastResp.exc
    /\ f_hist[1].resp.status = 503
    /\ f_err = "ClientError"

\* C23 (as claimed): every attempt that another attempt follows is followed
\* by a wait of at least 2^attempt + 1 and at most 2^attempt + 3 seconds
\* first, whatever the attempt ended in.
C23_WaitBeforeEveryRetry ==
    \A i \in 1..Len(f_hist) :
        i < Len(f_hist) =>
            /\ f_hist[i].wait >= (2 ^ (i - 1)) + 1
            /\ f_hist[i].wait <= (2 ^ (i - 1)) + 3

\* C24: a call makes at most max_retries requests; when it returns, its
\* last request, and no earlier one, was answered 200, and nothing was
\* slept after it; once it has returned or raised it makes no further
\* request; and it always comes to return or raise.
C24_BoundedAndTerminates ==
    /\ [](/\ Len(f_hist) <= f_max
          /\ f_pc = "returned" =>
                /\ Len(f_hist) >= 1
                /\ LastResp = [exc |-> FALSE, status |-> 200]
                /\ f_hist[Len(f_hist)].wait = 0
                /\ \A i \in 1..(Len(f_hist) - 1) :
                      f_hist[i].resp # [exc |-> FALSE, status |-> 200]
          /\ f_pc = "raised" => f_err # None)
    /\ [][FetchDone => (f_hist' = f_hist /\ f_pc' = f_pc)]_vars
    /\ <>FetchDone

\* the third request was answered 200, after a 503 and a network error
C24_Witness ==
    /\ f_pc = "returned"
    /\ Len(f_hist) = 3
    /\ f_hist[1].resp = [exc |-> FALSE, status |-> 503]
    /\ f_hist[2].resp = NetError
    /\ f_hist[3].resp = [exc |-> FALSE, status |-> 200]

====
